---- MODULE Spec2Model ----
(***************************************************************************)
(* Model of the kmf document-management API (src/routes/documents.ts):     *)
(* the zod validation schemas, the authenticate/authorize middleware, the  *)
(* document store and the handlers that create, read and update           *)
(* documents.                                                              *)
(***************************************************************************)
EXTENDS Integers, Sequences, FiniteSets, TLC

VARIABLES
    documents,      \* the Documents table: id -> row
    transactions,   \* the Transactions table: a set of rows
    cache,          \* the NodeCache of GET /documents: url -> cached body
    attachments,    \* the Attachments table: a set of rows
    request,        \* the HTTP request being served, NoRequest when idle
    response,       \* the response to it, NoResponse until one is sent
    assocInput,     \* the payload handed to documentAssociationsSchema.parse
    assocResult,    \* its outcome, NotParsed before the call
    accessInput,    \* the (document, organization, index) handed to canAccess
    accessResult,   \* its decision, NotDecided before the call
    entitlementInput,   \* the value handed to documentEntitlementSchema.parse
    entitlementResult,  \* its outcome, NotParsed before the call
    authorizeInput,     \* the (roles, req.user) handed to authorize
    authorizeResult     \* what authorize did, NotAuthorized before the call

storeVars == <<documents, transactions, cache, attachments>>

httpVars == <<request, response>>

assocVars == <<assocInput, assocResult>>

accessVars == <<accessInput, accessResult>>

entitlementVars == <<entitlementInput, entitlementResult>>

schemaVars == <<assocVars, entitlementVars>>

authorizeVars == <<authorizeInput, authorizeResult>>

vars == <<documents, transactions, cache, attachments, request, response,
          assocInput, assocResult, accessInput, accessResult,
          entitlementInput, entitlementResult, authorizeInput, authorizeResult>>

----------------------------------------------------------------------------
(* Bounds of the model *)

\* longest list enumerated for a list-valued JSON field
MaxListLen == 1

----------------------------------------------------------------------------
(* JSON values, as JSON.parse produces them.  A value carries its kind;    *)
(* an array carries its items.                                             *)

JStr(s) == [kind |-> "string", s |-> s]

JNum(n) == [kind |-> "number", n |-> n]

JArr(xs) == [kind |-> "array", items |-> xs]

\* the scalars enumerated as array items: a string id and a number
JItems == {JStr("id1"), JNum(123)}

RECURSIVE SeqsUpTo(_, _)
SeqsUpTo(S, n) ==
    IF n = 0 THEN {<<>>}
    ELSE LET shorter == SeqsUpTo(S, n - 1)
         IN  shorter \cup {Append(q, x) : q \in {p \in shorter : Len(p) = n - 1}, x \in S}

\* the arrays enumerated for a list field
JLists == {JArr(xs) : xs \in SeqsUpTo(JItems, MaxListLen)}

\* a JSON object: a function from the keys present to their values
HasKey(obj, key) == key \in DOMAIN obj

\* objects over the keys Keys whose present values are drawn from Vals
ObjectsOver(Keys, Vals) == UNION {[D -> Vals] : D \in SUBSET Keys}

----------------------------------------------------------------------------
(* zod primitives *)

\* z.string()
IsZString(v) == v.kind = "string"

\* z.array(z.string())
IsZStringArray(v) ==
    /\ v.kind = "array"
    /\ \A i \in 1..Len(v.items) : IsZString(v.items[i])

\* <schema>.optional() for a key of an object: absent, or of the shape
OptionalStringArray(obj, key) == HasKey(obj, key) => IsZStringArray(obj[key])

OptionalString(obj, key) == HasKey(obj, key) => IsZString(obj[key])

\* a required key of an object
RequiredString(obj, key) == HasKey(obj, key) /\ IsZString(obj[key])

\* z.object strips the keys the schema does not declare
Strip(obj, Keys) == [k \in (DOMAIN obj) \cap Keys |-> obj[k]]

----------------------------------------------------------------------------
(* documentAssociationsSchema *)

TraceableKeys == {"locationGLNList", "productList", "organizationList", "epcList"}

LinkKeys == {"eventIDList", "transactionIDList"}

AssociationKeys == TraceableKeys \cup LinkKeys

SingleTraceableMessage == "Document can only be linked to one type of traceable element"

NotParsed == [parsed |-> FALSE]

ParseOk(value) == [parsed |-> TRUE, success |-> TRUE, data |-> value]

ParseError(message) == [parsed |-> TRUE, success |-> FALSE, message |-> message]

\* the z.object({...}) part: every list optional, each an array of strings
AssociationsShapeOk(raw) ==
    \A key \in AssociationKeys : OptionalStringArray(raw, key)

\* list => list && list.length > 0
NonEmptyList(data, key) == HasKey(data, key) /\ Len(data[key].items) > 0

\* [locationGLNList, productList, organizationList, epcList].filter(...)
traceableElements(data) == {key \in TraceableKeys : NonEmptyList(data, key)}

\* the .refine(...) predicate
AssociationsRefineLoose(data) == Cardinality(traceableElements(data)) <= 2

AssociationsRefineExactlyOne(data) == Cardinality(traceableElements(data)) = 1

AssociationsRefine(data) == Cardinality(traceableElements(data)) <= 1

\* documentAssociationsSchema.safeParse: the refinement runs on a well-shaped
\* object only
documentAssociationsSchema(raw) ==
    IF ~AssociationsShapeOk(raw) THEN ParseError("invalid_type")
    ELSE IF ~AssociationsRefine(Strip(raw, AssociationKeys))
         THEN ParseError(SingleTraceableMessage)
         ELSE ParseOk(Strip(raw, AssociationKeys))

\* the association payloads enumerated
AssociationPayloads == ObjectsOver(AssociationKeys, JLists)

----------------------------------------------------------------------------
(* customPropertySchema, documentPropertiesSchema, documentEntitlementSchema *)

JNull == [kind |-> "null"]

CustomPropertyFormats == {"date", "date-time", "gln", "gtin", "uri"}

\* z.object({name, value, format})
customPropertySchema(v) ==
    /\ v.kind = "object"
    /\ RequiredString(v.fields, "name")
    /\ HasKey(v.fields, "value")
    /\ v.fields["value"].kind \in {"string", "number"}
    /\ HasKey(v.fields, "format") =>
          /\ IsZString(v.fields["format"])
          /\ v.fields["format"].s \in CustomPropertyFormats

\* z.array(customPropertySchema)
IsCustomPropertyArray(v) ==
    /\ v.kind = "array"
    /\ \A i \in 1..Len(v.items) : customPropertySchema(v.items[i])

PropertiesSchemaKeys ==
    {"documentType", "documentTitle", "issueDate", "expiryDate", "tagList",
     "customProperties"} \cup AssociationKeys

PropertiesShapeOk(raw) ==
    /\ RequiredString(raw, "documentType")
    /\ RequiredString(raw, "documentTitle")
    /\ OptionalString(raw, "issueDate")
    /\ OptionalString(raw, "expiryDate")
    /\ OptionalStringArray(raw, "tagList")
    /\ (HasKey(raw, "customProperties") => IsCustomPropertyArray(raw.customProperties))
    /\ \A key \in AssociationKeys : OptionalStringArray(raw, key)

\* the keys the parsed object keeps: z.object drops undeclared keys
PropertiesKeptKeysPassthrough(raw) == DOMAIN raw

PropertiesKeptKeys(raw) == (DOMAIN raw) \cap PropertiesSchemaKeys

\* documentPropertiesSchema.parse: a ZodError, or the parsed object
documentPropertiesSchema(raw) ==
    IF ~PropertiesShapeOk(raw) THEN ParseError("invalid_type")
    ELSE ParseOk(Strip(raw, PropertiesKeptKeys(raw)))

EntitlementModes == {"private", "linked"}

EntitlementSchemaKeys == {"mode", "entitledOrgIds"}

\* z.enum(['private', 'linked'])
IsEntitlementMode(v) == IsZString(v) /\ v.s \in EntitlementModes

\* entitledOrgIds accepted only together with mode 'linked'
EntitlementShapeOkLinkedOnly(raw) ==
    /\ HasKey(raw, "mode") /\ IsEntitlementMode(raw.mode)
    /\ OptionalStringArray(raw, "entitledOrgIds")
    /\ HasKey(raw, "entitledOrgIds") => raw.mode.s = "linked"

EntitlementShapeOk(raw) ==
    /\ HasKey(raw, "mode") /\ IsEntitlementMode(raw.mode)
    /\ OptionalStringArray(raw, "entitledOrgIds")

\* documentEntitlementSchema.parse
documentEntitlementSchema(raw) ==
    IF ~EntitlementShapeOk(raw) THEN ParseError("invalid_type")
    ELSE ParseOk(Strip(raw, EntitlementSchemaKeys))

----------------------------------------------------------------------------
(* documentTemplates *)

DocumentTypes == {"Generic Document", "Generic Certificate", "GAA BAP Certificate"}

documentTemplates ==
    [t \in DocumentTypes |->
        CASE t = "Generic Document" ->
               [type |-> t,
                requiredProperties |-> <<"title", "description">>,
                allowedFileTypes |-> {"application/pdf", "text/plain", "image/png",
                                      "image/jpeg", "image/gif"}]
          [] t = "Generic Certificate" ->
               [type |-> t,
                requiredProperties |-> <<"title", "issuer", "validFrom", "validTo">>,
                allowedFileTypes |-> {"application/pdf", "image/png", "image/jpeg"}]
          [] t = "GAA BAP Certificate" ->
               [type |-> t,
                requiredProperties |-> <<"certificateNumber", "facility", "issuer",
                                         "validFrom", "validTo", "auditDate">>,
                allowedFileTypes |-> {"application/pdf"}]]

\* the names an object literal inherits from Object.prototype
ObjectPrototypeKeys ==
    {"constructor", "toString", "valueOf", "hasOwnProperty", "isPrototypeOf",
     "propertyIsEnumerable", "toLocaleString", "__proto__"}

\* documentTemplates[documentType]: a template, an inherited member that is
\* no template, or undefined
TemplateLookup(documentType) ==
    IF documentType \in DocumentTypes
    THEN [found |-> "template", template |-> documentTemplates[documentType]]
    ELSE IF documentType \in ObjectPrototypeKeys
         THEN [found |-> "inherited"]
         ELSE [found |-> "undefined"]

SeqToSet(q) == {q[i] : i \in 1..Len(q)}

\* template.requiredProperties.filter(prop => !(prop in properties))
missingProperties(template, properties) ==
    SelectSeq(template.requiredProperties, LAMBDA prop : ~HasKey(properties, prop))

----------------------------------------------------------------------------
(* authenticate and authorize *)

\* an Authorization header is the sequence of its words and of the single
\* spaces between them, <<"Bearer", " ", "valid-token">>; two words are never
\* adjacent.  authHeader.split(' ') yields the text between the spaces
RECURSIVE SplitOnSpace(_)
SplitOnSpace(header) ==
    IF header = <<>> THEN <<"">>
    ELSE IF Head(header) = " " THEN <<"">> \o SplitOnSpace(Tail(header))
         ELSE <<Head(header)>> \o Tail(SplitOnSpace(Tail(header)))

NoHeader == <<>>

StubUser == [id |-> "user-id", organizationId |-> "org-id", role |-> "user"]

Status(code, body) == [sent |-> TRUE, done |-> TRUE, status |-> code, body |-> body]

ErrorBody(message) == [error |-> message]

\* authenticate: a 401 response, or the request passed on with req.user set
\* the header is tested, the token is not
authenticateHeaderOnly(req) ==
    IF req.authorization = NoHeader
    THEN [next |-> FALSE,
          response |-> Status(401, ErrorBody("Authorization header is missing"))]
    ELSE [next |-> TRUE, user |-> StubUser]

authenticate(req) ==
    IF req.authorization = NoHeader
    THEN [next |-> FALSE,
          response |-> Status(401, ErrorBody("Authorization header is missing"))]
    ELSE LET parts == SplitOnSpace(req.authorization)
             token == IF Len(parts) >= 2 THEN parts[2] ELSE ""
         IN  IF token = ""
             THEN [next |-> FALSE, response |-> Status(401, ErrorBody("Token is missing"))]
             ELSE [next |-> TRUE, user |-> StubUser]

\* req.user when no middleware attached a user
NoUser == [k \in {} |-> ""]

NoAuthorizeInput == [given |-> FALSE]

NotAuthorized == [called |-> FALSE]

\* a missing req.user passes, as it would were the property read with ?.
authorizeUserOptional(roles, user) ==
    IF user # NoUser /\ ("role" \notin DOMAIN user \/ user.role \notin roles)
    THEN [next |-> FALSE, response |-> Status(403, ErrorBody("Access denied"))]
    ELSE [next |-> TRUE]

\* authorize(roles): a 403 response, or the request passed on.  Reading
\* req.user.role of a missing user throws a TypeError, which the catch block
\* answers with the same 403; a user without role has role undefined
authorize(roles, user) ==
    IF user = NoUser \/ "role" \notin DOMAIN user \/ user.role \notin roles
    THEN [next |-> FALSE, response |-> Status(403, ErrorBody("Access denied"))]
    ELSE [next |-> TRUE]

----------------------------------------------------------------------------
(* The store: DocumentModel and TransactionModel *)

\* most rows the Documents table holds before the first request
MaxSeedDocs == 1

\* most rows of the Documents table
MaxDocuments == 2

\* most rows of the Transactions table
MaxTransactions == 1

\* most entries of the GET /documents cache
MaxCached == 1

\* a document id no row has
NonexistentDocId == 0

\* a row inserted directly through DocumentModel.create, as the repository's
\* tests do before they call the API: no associations, no entitlement, no
\* content file, the default version
SeedDocument(id) ==
    [id |-> id,
     type |-> "Generic Document",
     properties |-> [title |-> JStr("Test Document")],
     contentFile |-> JNull,
     associations |-> JNull,
     entitlement |-> JNull,
     version |-> 1,
     createdBy |-> "test-user",
     organizationId |-> "test-org"]

SeedStores == {[id \in 1..n |-> SeedDocument(id)] : n \in 0..MaxSeedDocs}

UsedIds(docs, txns) == (DOMAIN docs) \cup {t.correlationId : t \in txns}

\* crypto.randomUUID() and DataTypes.UUIDV4: an id no row has, nor any of avoid
FreshId(used) == CHOOSE n \in 1..(Cardinality(used) + 1) : n \notin used /\ \A m \in 1..(n - 1) : m \in used

TransactionRow(correlationId, status) == [correlationId |-> correlationId, status |-> status]

----------------------------------------------------------------------------
(* Requests and responses *)

NoRequest == [route |-> "none"]

\* no response yet: the handler has not run
NoResponse == [sent |-> FALSE, done |-> FALSE]

\* the handler ended without sending a response
Unanswered == [sent |-> FALSE, done |-> TRUE]

\* a text field of a multipart body: absent, text that is no JSON, or JSON text
FieldAbsent == [field |-> "absent"]

FieldMalformed == [field |-> "malformed"]

FieldJson(value) == [field |-> "json", value |-> value]

\* JSON.parse(field): a SyntaxError for an absent field or malformed text
JsonParse(field) ==
    IF field.field = "json" THEN [threw |-> FALSE, value |-> field.value]
    ELSE [threw |-> TRUE]

NoFile == [present |-> FALSE]

File(mimetype) == [present |-> TRUE, mimetype |-> mimetype]

Merge(f, g) == [k \in (DOMAIN f) \cup (DOMAIN g) |-> IF k \in DOMAIN f THEN f[k] ELSE g[k]]

EmptyObject == [k \in {} |-> JNull]

----------------------------------------------------------------------------
(* The app: the correlation ID middleware in front of the router *)

\* UUIDs are numbered: those a client sends or the app draws for the
\* x-correlation-id header below 0, those the router draws from 1
ClientCorrelationId == -1

AppCorrelationId == -2

NoCorrelationHeader == [header |-> "absent"]

CorrelationHeader(id) == [header |-> "present", id |-> id]

\* req.headers['x-correlation-id'] || crypto.randomUUID(), written back to
\* the request headers and set on the response
CorrelationIdMiddleware(req) ==
    LET correlationId == IF req.xCorrelationId.header = "present"
                         THEN req.xCorrelationId.id ELSE AppCorrelationId
    IN  [req EXCEPT !.xCorrelationId = CorrelationHeader(correlationId)]

\* the x-correlation-id header of the response
ResponseCorrelationId(req) == req.xCorrelationId.id

----------------------------------------------------------------------------
(* POST /documents *)

Outcome(docs, txns, resp) == [documents |-> docs, transactions |-> txns, response |-> resp]

StoreFailedMessage ==
    "The transaction to store the document failed and the document is invalid, unrecoverable state. Upload the document again to resolve the problem. If the problem persists, please contact support team."

\* the catch block of POST /documents for an error that is no ZodError: the
\* failed transaction is written, then 500 is sent; when that write rejects,
\* the handler's promise rejects and nothing is sent
PostDocumentsCatch(docs, txns, catchLogOk) ==
    IF catchLogOk
    THEN Outcome(docs,
                 txns \cup {TransactionRow(FreshId(UsedIds(docs, txns)), "failed")},
                 Status(500, ErrorBody(StoreFailedMessage)))
    ELSE Outcome(docs, txns, Unanswered)

ZodErrorResponse == Status(400, ErrorBody("ZodError"))

\* the row DocumentModel.create inserts
NewDocument(id, properties, contentFile, entitlement) ==
    [id |-> id,
     type |-> properties["documentType"].s,
     properties |-> properties,
     contentFile |-> IF contentFile.present THEN JStr(contentFile.mimetype) ELSE JNull,
     associations |-> Strip(properties, AssociationKeys),
     entitlement |-> entitlement,
     version |-> 1,
     createdBy |-> "user-id",
     organizationId |-> "org-id"]

DefaultEntitlement == [mode |-> JStr("private")]

\* lines 351-356: the entitlement part, when given, replaces the default
PostEntitlement(req) ==
    IF req.entitlement.field = "absent" THEN [threw |-> "none", value |-> DefaultEntitlement]
    ELSE LET json == JsonParse(req.entitlement)
         IN  IF json.threw THEN [threw |-> "SyntaxError"]
             ELSE LET parsed == documentEntitlementSchema(json.value)
                  IN  IF ~parsed.success THEN [threw |-> "ZodError"]
                      ELSE [threw |-> "none", value |-> parsed.data]

\* lines 372-401: the document is created, the transaction logged, 201 sent
PostDocumentsPersist(docs, txns, properties, contentFile, entitlement, createOk, logOk, catchLogOk) ==
    IF ~createOk THEN PostDocumentsCatch(docs, txns, catchLogOk)
    ELSE LET id      == FreshId(UsedIds(docs, txns))
             row     == NewDocument(id, properties, contentFile, entitlement)
             created == [d \in (DOMAIN docs) \cup {id} |-> IF d = id THEN row ELSE docs[d]]
         IN  IF ~logOk THEN PostDocumentsCatch(created, txns, catchLogOk)
             ELSE Outcome(created,
                          txns \cup {TransactionRow(FreshId(UsedIds(created, txns)), "completed")},
                          Status(201, row))

\* lines 340-349: the required-properties check
RequiredPropertiesMissing(template, properties) ==
    Len(missingProperties(template, properties)) > 0

\* the stages in another order: entitlement and file type before the
\* required properties
PostDocumentsEntitlementFirst(docs, txns, req, template, properties, createOk, logOk, catchLogOk) ==
    LET entitlement == PostEntitlement(req)
    IN  IF entitlement.threw = "SyntaxError"
        THEN PostDocumentsCatch(docs, txns, catchLogOk)
        ELSE IF entitlement.threw = "ZodError"
        THEN Outcome(docs, txns, ZodErrorResponse)
        ELSE IF req.content.present
                /\ req.content.mimetype \notin template.allowedFileTypes
        THEN Outcome(docs, txns,
                     Status(415, [error |-> "Unsupported Media Type",
                                  allowedTypes |-> template.allowedFileTypes]))
        ELSE IF RequiredPropertiesMissing(template, properties)
        THEN Outcome(docs, txns,
                     Status(400, [error |-> "Missing required properties",
                                  missingProperties |-> missingProperties(template, properties)]))
        ELSE PostDocumentsPersist(docs, txns, properties, req.content,
                                  entitlement.value, createOk, logOk, catchLogOk)

\* lines 340-401, once the template is known
PostDocumentsWithTemplate(docs, txns, req, template, properties, createOk, logOk, catchLogOk) ==
    IF RequiredPropertiesMissing(template, properties)
    THEN Outcome(docs, txns,
                 Status(400, [error |-> "Missing required properties",
                              missingProperties |-> missingProperties(template, properties)]))
    ELSE LET entitlement == PostEntitlement(req)
         IN  IF entitlement.threw = "SyntaxError"
             THEN PostDocumentsCatch(docs, txns, catchLogOk)
             ELSE IF entitlement.threw = "ZodError"
             THEN Outcome(docs, txns, ZodErrorResponse)
             ELSE IF req.content.present
                     /\ req.content.mimetype \notin template.allowedFileTypes
             THEN Outcome(docs, txns,
                          Status(415, [error |-> "Unsupported Media Type",
                                       allowedTypes |-> template.allowedFileTypes]))
             ELSE PostDocumentsPersist(docs, txns, properties, req.content,
                                       entitlement.value, createOk, logOk, catchLogOk)

\* the route handler, lines 328-419
PostDocumentsHandler(docs, txns, req, createOk, logOk, catchLogOk) ==
    LET json == JsonParse(req.properties)
    IN  IF json.threw THEN PostDocumentsCatch(docs, txns, catchLogOk)
        ELSE LET parsed == documentPropertiesSchema(json.value)
             IN  IF ~parsed.success THEN Outcome(docs, txns, ZodErrorResponse)
                 ELSE LET lookup == TemplateLookup(parsed.data["documentType"].s)
                      IN  IF lookup.found = "undefined"
                          THEN Outcome(docs, txns, Status(400, ErrorBody("Invalid document type")))
                          ELSE IF lookup.found = "inherited"
                          THEN PostDocumentsCatch(docs, txns, catchLogOk)
                          ELSE PostDocumentsWithTemplate(docs, txns, req, lookup.template,
                                                         parsed.data, createOk, logOk, catchLogOk)

\* router.use(authenticate), authorize(['admin', 'user']), then the handler
PostDocumentsRoute(docs, txns, req, createOk, logOk, catchLogOk) ==
    LET auth == authenticate(req)
    IN  IF ~auth.next THEN Outcome(docs, txns, auth.response)
        ELSE LET authz == authorize({"admin", "user"}, auth.user)
             IN  IF ~authz.next THEN Outcome(docs, txns, authz.response)
                 ELSE PostDocumentsHandler(docs, txns, req, createOk, logOk, catchLogOk)

----------------------------------------------------------------------------
(* GET /documents/:docId/content and GET /documents/:docId/entitlement *)

\* DocumentModel.findByPk(docId), then the field asked for
GetDocumentField(docs, req, dbOk, field) ==
    LET auth == authenticate(req)
    IN  IF ~auth.next THEN auth.response
        ELSE IF ~dbOk THEN Status(500, ErrorBody("Internal server error"))
        ELSE IF req.docId \notin DOMAIN docs THEN Status(404, ErrorBody("Document not found"))
        ELSE Status(200, [docId |-> req.docId, field |-> field, value |-> docs[req.docId][field]])

GetDocumentContentRoute(docs, req, dbOk) == GetDocumentField(docs, req, dbOk, "contentFile")

GetDocumentEntitlementRoute(docs, req, dbOk) == GetDocumentField(docs, req, dbOk, "entitlement")

----------------------------------------------------------------------------
(* PUT /documents/:docId/content *)

\* file.filename: multer.memoryStorage() keeps the upload in file.buffer and
\* sets no filename, so the column is written as NULL
MemoryStorageFilename(file) == JNull

WithField(docs, docId, field, value) ==
    [d \in DOMAIN docs |-> IF d = docId THEN [docs[d] EXCEPT ![field] = value] ELSE docs[d]]

\* router.use(authenticate), upload.single('content'), then lines 442-463
PutDocumentContentRoute(docs, req, findOk, saveOk) ==
    LET auth == authenticate(req)
    IN  IF ~auth.next THEN [documents |-> docs, response |-> auth.response]
        ELSE IF ~req.content.present
        THEN [documents |-> docs, response |-> Status(400, ErrorBody("No file uploaded"))]
        ELSE IF ~findOk
        THEN [documents |-> docs, response |-> Status(500, ErrorBody("Internal server error"))]
        ELSE IF req.docId \notin DOMAIN docs
        THEN [documents |-> docs, response |-> Status(404, ErrorBody("Document not found"))]
        ELSE IF ~saveOk
        THEN [documents |-> docs, response |-> Status(500, ErrorBody("Internal server error"))]
        ELSE [documents |-> WithField(docs, req.docId, "contentFile",
                                      MemoryStorageFilename(req.content)),
              response |-> Status(200, [message |-> "Document content updated successfully"])]

----------------------------------------------------------------------------
(* PUT /documents/:docId/entitlement *)

\* what a call of the database does: it returns, or rejects with an error
\* named SequelizeDatabaseError, or rejects with another error
DbOutcomes == {"ok", "SequelizeDatabaseError", "Error"}

\* the catch block, lines 516-528
PutEntitlementCatch(docs, txns, correlationId, errorName, catchLogOk) ==
    IF errorName = "SequelizeDatabaseError"
    THEN IF catchLogOk
         THEN Outcome(docs, txns \cup {TransactionRow(correlationId, "failed")},
                      Status(500, ErrorBody("Database query failed")))
         ELSE Outcome(docs, txns, Unanswered)
    ELSE Outcome(docs, txns, Status(500, ErrorBody("Internal server error")))

\* the route handler, lines 489-529
PutEntitlementHandler(docs, txns, req, find, save, log, catchLogOk) ==
    LET correlationId == FreshId(UsedIds(docs, txns))
        parsed        == documentEntitlementSchema(req.body)
    IN  IF ~parsed.success
        THEN PutEntitlementCatch(docs, txns, correlationId, "ZodError", catchLogOk)
        ELSE IF find # "ok"
        THEN PutEntitlementCatch(docs, txns, correlationId, find, catchLogOk)
        ELSE IF req.docId \notin DOMAIN docs
        THEN IF log # "ok"
             THEN PutEntitlementCatch(docs, txns, correlationId, log, catchLogOk)
             ELSE Outcome(docs, txns \cup {TransactionRow(correlationId, "failed")},
                          Status(404, ErrorBody("Document not found")))
        ELSE IF save # "ok"
        THEN PutEntitlementCatch(docs, txns, correlationId, save, catchLogOk)
        ELSE LET saved == WithField(docs, req.docId, "entitlement", parsed.data)
             IN  IF log # "ok"
                 THEN PutEntitlementCatch(saved, txns, correlationId, log, catchLogOk)
                 ELSE Outcome(saved, txns \cup {TransactionRow(correlationId, "completed")},
                              Status(200, [message |-> "Document entitlement updated successfully"]))

\* router.use(authenticate), authorize(['admin']), express.json(), the handler
PutDocumentEntitlementRoute(docs, txns, req, find, save, log, catchLogOk) ==
    LET auth == authenticate(req)
    IN  IF ~auth.next THEN Outcome(docs, txns, auth.response)
        ELSE LET authz == authorize({"admin"}, auth.user)
             IN  IF ~authz.next THEN Outcome(docs, txns, authz.response)
                 ELSE PutEntitlementHandler(docs, txns, req, find, save, log, catchLogOk)

----------------------------------------------------------------------------
(* POST /documents/:docId/attachments and                                  *)
(* DELETE /documents/:docId/attachments/:attachmentId                      *)

AttachmentOutcome(atts, txns, resp) == [attachments |-> atts, transactions |-> txns, response |-> resp]

InternalServerError == Status(500, ErrorBody("Internal server error"))

\* the ids of the Attachments table are of their own: 'attachment-<n>'
AttachmentId(n) == <<"attachment", n>>

NonexistentAttachmentId == AttachmentId(0)

FreshAttachmentId(atts) == AttachmentId(Cardinality(atts) + 1)

\* router.use(authenticate), upload.single('content'), then lines 532-560.
\* contentFile is allowNull: false, so AttachmentModel.create rejects a NULL
\* contentFile with a validation error, which the catch block answers
PostAttachmentRoute(docs, atts, req, findOk, createOk) ==
    LET auth == authenticate(req)
        contentFile == MemoryStorageFilename(req.content)
    IN  IF ~auth.next THEN [attachments |-> atts, response |-> auth.response]
        ELSE IF ~req.content.present
        THEN [attachments |-> atts, response |-> Status(400, ErrorBody("No file uploaded"))]
        ELSE IF ~findOk
        THEN [attachments |-> atts, response |-> InternalServerError]
        ELSE IF req.docId \notin DOMAIN docs
        THEN [attachments |-> atts, response |-> Status(404, ErrorBody("Document not found"))]
        ELSE IF contentFile = JNull \/ ~createOk
        THEN [attachments |-> atts, response |-> InternalServerError]
        ELSE LET id == FreshAttachmentId(atts)
             IN  [attachments |-> atts \cup {[id |-> id, documentId |-> req.docId,
                                              contentFile |-> contentFile]},
                  response |-> Status(201, [attachmentId |-> id,
                                            message |-> "Attachment created successfully"])]

\* the catch block of DELETE, lines 668-678: the failed transaction is
\* written, then 500 is sent; when that write rejects, nothing is sent
DeleteAttachmentCatch(atts, txns, correlationId, catchLogOk) ==
    IF catchLogOk
    THEN AttachmentOutcome(atts, txns \cup {TransactionRow(correlationId, "failed")},
                           InternalServerError)
    ELSE AttachmentOutcome(atts, txns, Unanswered)

\* the route handler, lines 622-679
DeleteAttachmentHandler(docs, atts, txns, req, findOk, findOneOk, destroyOk, logOk, catchLogOk) ==
    LET correlationId == FreshId(UsedIds(docs, txns))
        found == {a \in atts : a.id = req.attachmentId /\ a.documentId = req.docId}
    IN  IF ~findOk THEN DeleteAttachmentCatch(atts, txns, correlationId, catchLogOk)
        ELSE IF req.docId \notin DOMAIN docs
        THEN IF ~logOk THEN DeleteAttachmentCatch(atts, txns, correlationId, catchLogOk)
             ELSE AttachmentOutcome(atts, txns \cup {TransactionRow(correlationId, "failed")},
                                    Status(404, ErrorBody("Document not found")))
        ELSE IF ~findOneOk THEN DeleteAttachmentCatch(atts, txns, correlationId, catchLogOk)
        ELSE IF found = {}
        THEN IF ~logOk THEN DeleteAttachmentCatch(atts, txns, correlationId, catchLogOk)
             ELSE AttachmentOutcome(atts, txns \cup {TransactionRow(correlationId, "failed")},
                                    Status(404, ErrorBody("Attachment not found")))
        ELSE IF ~destroyOk THEN DeleteAttachmentCatch(atts, txns, correlationId, catchLogOk)
        ELSE IF ~logOk THEN DeleteAttachmentCatch(atts \ found, txns, correlationId, catchLogOk)
        ELSE AttachmentOutcome(atts \ found,
                               txns \cup {TransactionRow(correlationId, "completed")},
                               Status(200, [attachmentId |-> req.attachmentId,
                                            message |-> "Attachment deleted successfully"]))

\* router.use(authenticate), then the handler
DeleteAttachmentRoute(docs, atts, txns, req, findOk, findOneOk, destroyOk, logOk, catchLogOk) ==
    LET auth == authenticate(req)
    IN  IF ~auth.next THEN AttachmentOutcome(atts, txns, auth.response)
        ELSE DeleteAttachmentHandler(docs, atts, txns, req, findOk, findOneOk, destroyOk,
                                     logOk, catchLogOk)

----------------------------------------------------------------------------
(* GET /documents, behind cacheMiddleware *)

\* MAX_LIMIT_DOC: parseInt(process.env.MAX_LIMIT_DOC || '100', 10)
MAX_LIMIT_DOC == 100

\* req.query['docIds[]']: absent, one string, or an array of strings
QueryAbsent == [kind |-> "absent"]

QueryString(id) == [kind |-> "string", id |-> id]

QueryArray(ids) == [kind |-> "array", ids |-> ids]

\* req.originalUrl: the path and the query string
OriginalUrl(req) == req.docIds

\* attributes: ['id', 'type', 'properties', 'createdAt', 'updatedAt']
DocumentAttributes(row) == [id |-> row.id, type |-> row.type, properties |-> row.properties]

\* DocumentModel.findAll({where: {id: docIds}})
FindAll(docs, ids) == {DocumentAttributes(docs[d]) : d \in (DOMAIN docs) \cap SeqToSet(ids)}

CacheOutcome(c, resp) == [cache |-> c, response |-> resp]

\* res.json as cacheMiddleware replaces it: the body is cached under the url,
\* then sent with the status set so far
CachingJson(c, key, code, body) ==
    CacheOutcome([u \in (DOMAIN c) \cup {key} |-> IF u = key THEN body ELSE c[u]],
                 Status(code, body))

\* the route handler, lines 283-321
GetDocumentsHandler(docs, c, req, dbOk) ==
    LET key == OriginalUrl(req)
    IN  IF req.docIds.kind # "array"
        THEN CachingJson(c, key, 400,
                         ErrorBody("docIds[] parameter is required and must be an array"))
        ELSE IF Len(req.docIds.ids) > MAX_LIMIT_DOC
        THEN CachingJson(c, key, 400,
                         ErrorBody("The maximum number of documents that can be retrieved is 100"))
        ELSE IF ~dbOk
        THEN CachingJson(c, key, 500, ErrorBody("Internal server error"))
        ELSE IF FindAll(docs, req.docIds.ids) = {}
        THEN CachingJson(c, key, 404, ErrorBody("No documents found"))
        ELSE CachingJson(c, key, 200, [documents |-> FindAll(docs, req.docIds.ids)])

\* router.use(authenticate), cacheMiddleware, then the handler: a cached body
\* is sent as it is, with the default status
GetDocumentsRoute(docs, c, req, dbOk) ==
    LET auth == authenticate(req)
        key  == OriginalUrl(req)
    IN  IF ~auth.next THEN CacheOutcome(c, auth.response)
        ELSE IF key \in DOMAIN c THEN CacheOutcome(c, Status(200, c[key]))
        ELSE GetDocumentsHandler(docs, c, req, dbOk)

EmptyCache == [u \in {} |-> JNull]

----------------------------------------------------------------------------
(* GET /transactions *)

\* the route handler, lines 682-711; correlationIds is req.query['correlationIds[]']
GetTransactionsHandler(txns, correlationIds, dbOk) ==
    IF correlationIds.kind # "array"
    THEN Status(400, ErrorBody("correlationIds[] is required and must be an array"))
    ELSE IF ~dbOk THEN Status(500, ErrorBody("Internal server error"))
    ELSE LET found == {t \in txns : t.correlationId \in SeqToSet(correlationIds.ids)}
         IN  IF found = {} THEN Status(404, ErrorBody("No transactions found"))
             ELSE Status(200, [transactions |-> found])

\* router.use(authenticate), then the handler
GetTransactionsRoute(txns, req, dbOk) ==
    LET auth == authenticate(req)
    IN  IF ~auth.next THEN auth.response
        ELSE GetTransactionsHandler(txns, req.correlationIds, dbOk)

----------------------------------------------------------------------------
(* Access Resolver: canAccess(document, requestingOrgId, index), section 4.2 *)
(* of the specification.  The repository defines no such operation; it is   *)
(* modelled from the specification's algorithm.                             *)

NoAccessInput == [given |-> FALSE]

NotDecided == [decided |-> FALSE]

\* entitlement.mode, {mode: private} when the document has no entitlement
EntitlementModeOf(document) ==
    IF document.entitlement = JNull THEN "private"
    ELSE document.entitlement["mode"].s

\* entitlement.entitledOrgIds, none when absent
EntitledOrgIdsOf(document) ==
    IF document.entitlement = JNull \/ ~HasKey(document.entitlement, "entitledOrgIds")
    THEN {}
    ELSE {item.s : item \in SeqToSet(document.entitlement["entitledOrgIds"].items)}

\* the ids of the list a document's associations hold under key, none when absent
AssociatedElements(document, key) ==
    IF document.associations = JNull \/ ~HasKey(document.associations, key)
    THEN {}
    ELSE {item.s : item \in SeqToSet(document.associations[key].items)}

\* the org traceable-element index: elementsFor(orgId, category)
elementsFor(index, orgId, category) == index[orgId][category]

\* step 3: some traceable-element list of the document shares an element with
\* what the index gives the organization in that category
LinkedAccess(document, requestingOrgId, index) ==
    \E category \in TraceableKeys :
        AssociatedElements(document, category)
            \cap elementsFor(index, requestingOrgId, category) # {}

\* every one of the six lists counted as a link, against all the organization holds
LinkedAccessAnyList(document, requestingOrgId, index) ==
    \E key \in AssociationKeys, category \in TraceableKeys :
        AssociatedElements(document, key)
            \cap elementsFor(index, requestingOrgId, category) # {}

canAccessNoOwner(document, requestingOrgId, index) ==
    \/ requestingOrgId \in EntitledOrgIdsOf(document)
    \/ /\ EntitlementModeOf(document) = "linked"
       /\ LinkedAccess(document, requestingOrgId, index)

canAccessModeFirst(document, requestingOrgId, index) ==
    \/ requestingOrgId = document.organizationId
    \/ /\ EntitlementModeOf(document) = "linked"
       /\ \/ requestingOrgId \in EntitledOrgIdsOf(document)
          \/ LinkedAccess(document, requestingOrgId, index)

canAccessAnyMode(document, requestingOrgId, index) ==
    \/ requestingOrgId = document.organizationId
    \/ requestingOrgId \in EntitledOrgIdsOf(document)
    \/ LinkedAccess(document, requestingOrgId, index)

canAccessAllLists(document, requestingOrgId, index) ==
    \/ requestingOrgId = document.organizationId
    \/ requestingOrgId \in EntitledOrgIdsOf(document)
    \/ /\ EntitlementModeOf(document) = "linked"
       /\ LinkedAccessAnyList(document, requestingOrgId, index)

\* steps 1 to 4
canAccess(document, requestingOrgId, index) ==
    \/ requestingOrgId = document.organizationId
    \/ requestingOrgId \in EntitledOrgIdsOf(document)
    \/ /\ EntitlementModeOf(document) = "linked"
       /\ LinkedAccess(document, requestingOrgId, index)

AccessOrgs == {"org-id", "ACME"}

ElementIds == {"P1"}

\* the indexes enumerated: what one organization holds in each category
IndexHolding(org, held) ==
    [o \in AccessOrgs |-> [c \in TraceableKeys |-> IF o = org THEN held[c] ELSE {}]]

AccessEntitlements ==
    {Merge([mode |-> JStr(m)], ids) :
        m \in EntitlementModes,
        ids \in {EmptyObject} \cup {[entitledOrgIds |-> JArr(<<JStr(o)>>)] : o \in AccessOrgs}}

AccessAssociations == {[k \in D |-> JArr(<<JStr("P1")>>)] : D \in SUBSET AssociationKeys}

\* the documents enumerated for canAccess
AccessDocuments ==
    {[id |-> 1, type |-> "Generic Document",
      properties |-> [documentType |-> JStr("Generic Document"),
                      documentTitle |-> JStr("Test Document")],
      contentFile |-> JNull, associations |-> a, entitlement |-> e, version |-> 1,
      createdBy |-> "user-id", organizationId |-> owner] :
        a \in AccessAssociations, e \in AccessEntitlements, owner \in AccessOrgs}

InitAccess ==
    /\ accessInput \in {[given |-> TRUE, document |-> d, requestingOrgId |-> o,
                         index |-> IndexHolding(o, held)] :
                            d \in AccessDocuments, o \in AccessOrgs,
                            held \in [TraceableKeys -> SUBSET ElementIds]}
    /\ accessResult = NotDecided
    /\ entitlementInput = EmptyObject
    /\ entitlementResult = NotParsed
    /\ authorizeInput = NoAuthorizeInput
    /\ authorizeResult = NotAuthorized
    /\ assocInput = EmptyObject
    /\ assocResult = NotParsed
    /\ documents = [id \in {} |-> JNull]
    /\ transactions = {}
    /\ attachments = {}
    /\ cache = [u \in {} |-> JNull]
    /\ request = [route |-> "none"]
    /\ response = [sent |-> FALSE, done |-> FALSE]

ResolveAccess ==
    /\ ~accessResult.decided
    /\ accessResult' = [decided |-> TRUE,
                        allow |-> canAccess(accessInput.document,
                                            accessInput.requestingOrgId, accessInput.index)]
    /\ UNCHANGED <<accessInput, schemaVars, authorizeVars, storeVars, httpVars>>

NextAccess == ResolveAccess

SpecAccess == InitAccess /\ [][NextAccess]_vars

----------------------------------------------------------------------------
(* The requests enumerated *)

BearerToken == <<"Bearer", " ", "valid-token">>

\* a token no issuer signed: 'Bearer invalid-token'
InvalidBearerToken == <<"Bearer", " ", "invalid-token">>

AuthorizationHeaders ==
    {NoHeader, <<"Bearer", " ">>, <<"InvalidTokenFormat">>, BearerToken, InvalidBearerToken}

SampleList == JArr(<<JStr("id1")>>)

\* the keys a template requires, all with a value, or all with the first empty
RequiredProperties(documentType, firstValue) ==
    LET required == documentTemplates[documentType].requiredProperties
    IN  [k \in SeqToSet(required) |-> IF k = required[1] THEN JStr(firstValue) ELSE JStr("value")]

ExtraProperties(documentType) ==
    IF documentType \in DocumentTypes
    THEN {EmptyObject, RequiredProperties(documentType, "value"), RequiredProperties(documentType, "")}
    ELSE {EmptyObject}

PostedDocumentTypes == DocumentTypes \cup {"Unknown Type", "constructor"}

PostedListKeys == {"locationGLNList", "productList"}

\* the properties parts enumerated: a document type or none, a title or
\* none, the template's required properties or none, association lists
PropertiesPayloads ==
    LET typed   == {[documentType |-> JStr(t)] : t \in PostedDocumentTypes}
        titles  == {EmptyObject, [documentTitle |-> JStr("Test Document")]}
        lists   == {[k \in D |-> SampleList] : D \in SUBSET PostedListKeys}
    IN  {Merge(Merge(title, list), EmptyObject) : title \in titles, list \in lists}
        \cup UNION {{Merge(Merge(type, extra), Merge(title, list)) :
                        extra \in ExtraProperties(type["documentType"].s),
                        title \in titles, list \in lists} : type \in typed}

PropertiesFields == {FieldAbsent, FieldMalformed} \cup {FieldJson(p) : p \in PropertiesPayloads}

EntitlementFields ==
    {FieldAbsent,
     FieldJson([mode |-> JStr("private")]),
     FieldJson([mode |-> JStr("linked"), entitledOrgIds |-> JArr(<<JStr("org1")>>)]),
     FieldJson([mode |-> JStr("invalid-mode")])}

ContentFiles == {NoFile, File("application/pdf"), File("application/zip")}

\* every combination of parts is sent with the valid token; with the other
\* headers the request carries no parts
PostDocumentsRequests ==
    {[route |-> "POST /documents", authorization |-> BearerToken,
      properties |-> p, entitlement |-> e, content |-> f] :
        p \in PropertiesFields, e \in EntitlementFields, f \in ContentFiles}
    \cup {[route |-> "POST /documents", authorization |-> a,
           properties |-> FieldAbsent, entitlement |-> FieldAbsent, content |-> NoFile] :
             a \in AuthorizationHeaders \ {BearerToken}}

DocIdParams(docs) == (DOMAIN docs) \cup {NonexistentDocId}

GetDocumentRequests(docs, route) ==
    {[route |-> route, authorization |-> a, docId |-> d] :
        a \in AuthorizationHeaders, d \in DocIdParams(docs)}

PutContentRequests(docs) ==
    {[route |-> "PUT /documents/:docId/content", authorization |-> a, docId |-> d, content |-> f] :
        a \in AuthorizationHeaders, d \in DocIdParams(docs), f \in ContentFiles}

\* the bodies express.json() hands to PUT /documents/:docId/entitlement
EntitlementBodies == {field.value : field \in {f \in EntitlementFields : f.field = "json"}}

PutEntitlementRequests(docs) ==
    {[route |-> "PUT /documents/:docId/entitlement", authorization |-> a, docId |-> d, body |-> b] :
        a \in AuthorizationHeaders, d \in DocIdParams(docs), b \in EntitlementBodies}

PostAttachmentRequests(docs) ==
    {[route |-> "POST /documents/:docId/attachments", authorization |-> a, docId |-> d, content |-> f] :
        a \in {NoHeader, BearerToken}, d \in DocIdParams(docs),
        f \in {NoFile, File("image/png")}}

DeleteAttachmentRequests(docs, atts) ==
    {[route |-> "DELETE /documents/:docId/attachments/:attachmentId", authorization |-> a, docId |-> d, attachmentId |-> i] :
        a \in {NoHeader, BearerToken}, d \in DocIdParams(docs),
        i \in {att.id : att \in atts} \cup {NonexistentAttachmentId}}

\* each request without x-correlation-id header and with the client's
WithCorrelationHeaders(requests) ==
    {Merge([xCorrelationId |-> h], req) :
        req \in requests, h \in {NoCorrelationHeader, CorrelationHeader(ClientCorrelationId)}}

\* the requests as the router receives them
ThroughApp(requests) == {CorrelationIdMiddleware(req) : req \in WithCorrelationHeaders(requests)}

\* the ids a client can ask GET /transactions for: the ones it knows from the
\* x-correlation-id headers, and the ones of the rows
KnownCorrelationIds(txns) ==
    {ClientCorrelationId, AppCorrelationId} \cup {t.correlationId : t \in txns}

GetTransactionsRequests(txns) ==
    {[route |-> "GET /transactions", authorization |-> a, correlationIds |-> q] :
        a \in {NoHeader, BearerToken},
        q \in {QueryAbsent} \cup {QueryArray(<<id>>) : id \in KnownCorrelationIds(txns)}}

\* Array(n).fill('dummy-id'): n times the id of no document
DummyIds(n) == [i \in 1..n |-> NonexistentDocId]

DocIdsQueries(docs) ==
    {QueryAbsent, QueryString(NonexistentDocId)}
    \cup {QueryArray(<<d>>) : d \in DocIdParams(docs)}
    \cup {QueryArray(DummyIds(n)) : n \in {MAX_LIMIT_DOC, MAX_LIMIT_DOC + 1}}

GetDocumentsRequests(docs) ==
    {[route |-> "GET /documents", authorization |-> a, docIds |-> q] :
        a \in AuthorizationHeaders, q \in DocIdsQueries(docs)}

----------------------------------------------------------------------------
(* The API: one request at a time is sent, served by its route, delivered *)

Init ==
    /\ documents \in SeedStores
    /\ transactions = {}
    /\ attachments = {}
    /\ cache = EmptyCache
    /\ request = NoRequest
    /\ response = NoResponse
    /\ assocInput = EmptyObject
    /\ assocResult = NotParsed
    /\ accessInput = NoAccessInput
    /\ accessResult = NotDecided
    /\ entitlementInput = EmptyObject
    /\ entitlementResult = NotParsed
    /\ authorizeInput = NoAuthorizeInput
    /\ authorizeResult = NotAuthorized

Idle == request = NoRequest

Pending(route) == request.route = route /\ ~response.done

SendPostDocuments ==
    /\ Idle
    /\ Cardinality(DOMAIN documents) < MaxDocuments
    /\ Cardinality(transactions) < MaxTransactions
    /\ request' \in ThroughApp(PostDocumentsRequests)
    /\ UNCHANGED <<storeVars, response, schemaVars, authorizeVars, accessVars>>

SendGetDocument ==
    /\ Idle
    /\ \E route \in {"GET /documents/:docId/content", "GET /documents/:docId/entitlement"} :
          request' \in ThroughApp(GetDocumentRequests(documents, route))
    /\ UNCHANGED <<storeVars, response, schemaVars, authorizeVars, accessVars>>

SendGetDocuments ==
    /\ Idle
    /\ \E req \in ThroughApp(GetDocumentsRequests(documents)) :
          /\ OriginalUrl(req) \in DOMAIN cache \/ Cardinality(DOMAIN cache) < MaxCached
          /\ request' = req
    /\ UNCHANGED <<storeVars, response, schemaVars, authorizeVars, accessVars>>

SendPutContent ==
    /\ Idle
    /\ request' \in ThroughApp(PutContentRequests(documents))
    /\ UNCHANGED <<storeVars, response, schemaVars, authorizeVars, accessVars>>

SendPutEntitlement ==
    /\ Idle
    /\ Cardinality(transactions) < MaxTransactions
    /\ request' \in ThroughApp(PutEntitlementRequests(documents))
    /\ UNCHANGED <<storeVars, response, schemaVars, authorizeVars, accessVars>>

PutDocumentContent ==
    /\ Pending("PUT /documents/:docId/content")
    /\ \E findOk \in BOOLEAN, saveOk \in BOOLEAN :
          LET out == PutDocumentContentRoute(documents, request, findOk, saveOk)
          IN  /\ documents' = out.documents
              /\ response' = out.response
    /\ UNCHANGED <<transactions, cache, attachments, request, schemaVars, authorizeVars, accessVars>>

PutDocumentEntitlement ==
    /\ Pending("PUT /documents/:docId/entitlement")
    /\ \E find \in DbOutcomes, save \in DbOutcomes, log \in DbOutcomes, catchLogOk \in BOOLEAN :
          LET out == PutDocumentEntitlementRoute(documents, transactions, request,
                                                 find, save, log, catchLogOk)
          IN  /\ documents' = out.documents
              /\ transactions' = out.transactions
              /\ response' = out.response
    /\ UNCHANGED <<cache, attachments, request, schemaVars, authorizeVars, accessVars>>

SendPostAttachment ==
    /\ Idle
    /\ request' \in ThroughApp(PostAttachmentRequests(documents))
    /\ UNCHANGED <<storeVars, response, schemaVars, authorizeVars, accessVars>>

SendDeleteAttachment ==
    /\ Idle
    /\ Cardinality(transactions) < MaxTransactions
    /\ request' \in ThroughApp(DeleteAttachmentRequests(documents, attachments))
    /\ UNCHANGED <<storeVars, response, schemaVars, authorizeVars, accessVars>>

PostAttachment ==
    /\ Pending("POST /documents/:docId/attachments")
    /\ \E findOk \in BOOLEAN, createOk \in BOOLEAN :
          LET out == PostAttachmentRoute(documents, attachments, request, findOk, createOk)
          IN  /\ attachments' = out.attachments
              /\ response' = out.response
    /\ UNCHANGED <<documents, transactions, cache, request, schemaVars, authorizeVars, accessVars>>

DeleteAttachment ==
    /\ Pending("DELETE /documents/:docId/attachments/:attachmentId")
    /\ \E findOk \in BOOLEAN, findOneOk \in BOOLEAN, destroyOk \in BOOLEAN,
          logOk \in BOOLEAN, catchLogOk \in BOOLEAN :
          LET out == DeleteAttachmentRoute(documents, attachments, transactions, request,
                                           findOk, findOneOk, destroyOk, logOk, catchLogOk)
          IN  /\ attachments' = out.attachments
              /\ transactions' = out.transactions
              /\ response' = out.response
    /\ UNCHANGED <<documents, cache, request, schemaVars, authorizeVars, accessVars>>

SendGetTransactions ==
    /\ Idle
    /\ request' \in ThroughApp(GetTransactionsRequests(transactions))
    /\ UNCHANGED <<storeVars, response, schemaVars, authorizeVars, accessVars>>

GetTransactions ==
    /\ Pending("GET /transactions")
    /\ \E dbOk \in BOOLEAN : response' = GetTransactionsRoute(transactions, request, dbOk)
    /\ UNCHANGED <<storeVars, request, schemaVars, authorizeVars, accessVars>>

PostDocuments ==
    /\ Pending("POST /documents")
    /\ \E createOk \in BOOLEAN, logOk \in BOOLEAN, catchLogOk \in BOOLEAN :
          LET out == PostDocumentsRoute(documents, transactions, request,
                                        createOk, logOk, catchLogOk)
          IN  /\ documents' = out.documents
              /\ transactions' = out.transactions
              /\ response' = out.response
    /\ UNCHANGED <<cache, attachments, request, schemaVars, authorizeVars, accessVars>>

GetDocumentContent ==
    /\ Pending("GET /documents/:docId/content")
    /\ \E dbOk \in BOOLEAN : response' = GetDocumentContentRoute(documents, request, dbOk)
    /\ UNCHANGED <<storeVars, request, schemaVars, authorizeVars, accessVars>>

GetDocumentEntitlement ==
    /\ Pending("GET /documents/:docId/entitlement")
    /\ \E dbOk \in BOOLEAN : response' = GetDocumentEntitlementRoute(documents, request, dbOk)
    /\ UNCHANGED <<storeVars, request, schemaVars, authorizeVars, accessVars>>

GetDocuments ==
    /\ Pending("GET /documents")
    /\ \E dbOk \in BOOLEAN :
          LET out == GetDocumentsRoute(documents, cache, request, dbOk)
          IN  /\ cache' = out.cache
              /\ response' = out.response
    /\ UNCHANGED <<documents, transactions, attachments, request, schemaVars, authorizeVars, accessVars>>

\* the exchange ends: the response is delivered, or the client gives up on a
\* request that is never answered
Deliver ==
    /\ ~Idle
    /\ response.done
    /\ request' = NoRequest
    /\ response' = NoResponse
    /\ UNCHANGED <<storeVars, schemaVars, authorizeVars, accessVars>>

\* stdTTL: 300: an entry of the cache expires
CacheExpire ==
    /\ Idle
    /\ \E key \in DOMAIN cache : cache' = [u \in (DOMAIN cache) \ {key} |-> cache[u]]
    /\ UNCHANGED <<documents, transactions, attachments, httpVars, schemaVars, authorizeVars, accessVars>>

Next ==
    \/ SendPostDocuments
    \/ SendGetDocument
    \/ SendGetDocuments
    \/ SendPutContent
    \/ SendPutEntitlement
    \/ SendPostAttachment
    \/ SendDeleteAttachment
    \/ SendGetTransactions
    \/ PostDocuments
    \/ PutDocumentContent
    \/ PutDocumentEntitlement
    \/ PostAttachment
    \/ DeleteAttachment
    \/ GetTransactions
    \/ GetDocumentContent
    \/ GetDocumentEntitlement
    \/ GetDocuments
    \/ Deliver
    \/ CacheExpire

Spec == Init /\ [][Next]_vars

----------------------------------------------------------------------------
(* Specification of the association validator: parse one payload *)

InitAssoc ==
    /\ assocInput \in AssociationPayloads
    /\ assocResult = NotParsed
    /\ documents = [id \in {} |-> JNull]
    /\ transactions = {}
    /\ attachments = {}
    /\ cache = EmptyCache
    /\ request = NoRequest
    /\ response = NoResponse
    /\ accessInput = NoAccessInput
    /\ accessResult = NotDecided
    /\ entitlementInput = EmptyObject
    /\ entitlementResult = NotParsed
    /\ authorizeInput = NoAuthorizeInput
    /\ authorizeResult = NotAuthorized

ParseAssociations ==
    /\ ~assocResult.parsed
    /\ assocResult' = documentAssociationsSchema(assocInput)
    /\ UNCHANGED <<assocInput, entitlementVars, storeVars, httpVars, accessVars, authorizeVars>>

NextAssoc == ParseAssociations

SpecAssoc == InitAssoc /\ [][NextAssoc]_vars

----------------------------------------------------------------------------
(* Specification of authorize: one call of authorize(roles) on one request *)

RoleNames == {"admin", "user", "editor", "guest"}

\* req.user: missing, without role, or with one of the roles
Users == {NoUser, [id |-> "user-id"]} \cup {[role |-> r] : r \in RoleNames}

InitAuthorize ==
    /\ authorizeInput \in {[given |-> TRUE, roles |-> roles, user |-> user] :
                              roles \in SUBSET RoleNames, user \in Users}
    /\ authorizeResult = NotAuthorized
    /\ entitlementInput = EmptyObject
    /\ entitlementResult = NotParsed
    /\ assocInput = EmptyObject
    /\ assocResult = NotParsed
    /\ documents = [id \in {} |-> JNull]
    /\ transactions = {}
    /\ attachments = {}
    /\ cache = EmptyCache
    /\ request = NoRequest
    /\ response = NoResponse
    /\ accessInput = NoAccessInput
    /\ accessResult = NotDecided

CallAuthorize ==
    /\ ~authorizeResult.called
    /\ authorizeResult' = [called |-> TRUE,
                           outcome |-> authorize(authorizeInput.roles, authorizeInput.user)]
    /\ UNCHANGED <<authorizeInput, schemaVars, storeVars, httpVars, accessVars>>

NextAuthorize == CallAuthorize

SpecAuthorize == InitAuthorize /\ [][NextAuthorize]_vars

----------------------------------------------------------------------------
(* Specification of the entitlement validator: parse one payload *)

\* the values enumerated for mode: the two modes, other strings, a number
ModeValues == {JStr(m) : m \in EntitlementModes \cup {"invalid-mode", ""}} \cup {JNum(123)}

\* the values enumerated for entitledOrgIds: lists, a string, null
EntitledOrgIdsValues == JLists \cup {JStr("invalid-type"), JNull}

\* objects with or without mode, entitledOrgIds and a key the schema does
\* not declare
EntitlementPayloads ==
    {Merge(Merge(mode, ids), extra) :
        mode \in {EmptyObject} \cup {[mode |-> v] : v \in ModeValues},
        ids \in {EmptyObject} \cup {[entitledOrgIds |-> v] : v \in EntitledOrgIdsValues},
        extra \in {EmptyObject, [grantedBy |-> JStr("org1")]}}

InitEntitlement ==
    /\ entitlementInput \in EntitlementPayloads
    /\ entitlementResult = NotParsed
    /\ authorizeInput = NoAuthorizeInput
    /\ authorizeResult = NotAuthorized
    /\ assocInput = EmptyObject
    /\ assocResult = NotParsed
    /\ documents = [id \in {} |-> JNull]
    /\ transactions = {}
    /\ attachments = {}
    /\ cache = EmptyCache
    /\ request = NoRequest
    /\ response = NoResponse
    /\ accessInput = NoAccessInput
    /\ accessResult = NotDecided

ParseEntitlement ==
    /\ ~entitlementResult.parsed
    /\ entitlementResult' = documentEntitlementSchema(entitlementInput)
    /\ UNCHANGED <<entitlementInput, assocVars, storeVars, httpVars, accessVars, authorizeVars>>

NextEntitlement == ParseEntitlement

SpecEntitlement == InitEntitlement /\ [][NextEntitlement]_vars

----------------------------------------------------------------------------
(* Claims on documentAssociationsSchema *)

\* each of the six lists absent or a list of strings
WellShapedAssociations(raw) ==
    \A key \in DOMAIN raw :
        /\ raw[key].kind = "array"
        /\ \A i \in 1..Len(raw[key].items) : raw[key].items[i].kind = "string"

\* the traceable-element lists present with length > 0
NonEmptyTraceable(raw) ==
    {key \in TraceableKeys : key \in DOMAIN raw /\ raw[key].items # <<>>}

----------------------------------------------------------------------------
(* Claims on the Access Resolver *)

AccessDecided == accessInput.given /\ accessResult.decided

IsOwner == accessInput.requestingOrgId = accessInput.document.organizationId

\* the organization is named in entitlement.entitledOrgIds
IsEntitled ==
    /\ "entitledOrgIds" \in DOMAIN accessInput.document.entitlement
    /\ \E i \in 1..Len(accessInput.document.entitlement["entitledOrgIds"].items) :
          accessInput.document.entitlement["entitledOrgIds"].items[i].s
              = accessInput.requestingOrgId

ModeIs(mode) == accessInput.document.entitlement["mode"].s = mode

\* for some non-empty traceable-element list of the document, the index gives
\* the organization an element of it
HoldsLinkedElement ==
    \E key \in TraceableKeys :
        /\ key \in DOMAIN accessInput.document.associations
        /\ \E i \in 1..Len(accessInput.document.associations[key].items) :
              accessInput.document.associations[key].items[i].s
                  \in accessInput.index[accessInput.requestingOrgId][key]

\* C4: the owning organization is allowed, whatever the mode, the entitled
\* organizations, the associations and the index.
C4_OwnerAlwaysAllowed == (AccessDecided /\ IsOwner) => accessResult.allow

\* C4 witness: the owner asked for a private document with no grant and no
\* association, under an index that gives it nothing
C4_Witness ==
    /\ AccessDecided /\ IsOwner /\ ModeIs("private") /\ ~IsEntitled
    /\ DOMAIN accessInput.document.associations = {}
    /\ ~HoldsLinkedElement

\* C5: an organization in entitlement.entitledOrgIds is allowed in both modes,
\* also when it is not the owner.
C5_EntitledAlwaysAllowed == (AccessDecided /\ IsEntitled) => accessResult.allow

\* C5 witness: an entitled organization that is not the owner asked for a
\* private document
C5_Witness == AccessDecided /\ IsEntitled /\ ~IsOwner /\ ModeIs("private")

\* C6: for a private document, an organization that is neither the owner nor
\* entitled is denied, whatever the associations and the index.
C6_PrivateDeniesOthers ==
    (AccessDecided /\ ModeIs("private") /\ ~IsOwner /\ ~IsEntitled) => ~accessResult.allow

\* C6 witness: such an organization asked for a private document one of whose
\* traceable elements the index gives it
C6_Witness ==
    AccessDecided /\ ModeIs("private") /\ ~IsOwner /\ ~IsEntitled /\ HoldsLinkedElement

\* C7: for a linked document, an organization that is neither the owner nor
\* entitled is allowed if and only if the index gives it an element of a
\* non-empty traceable-element list of the document; eventIDList and
\* transactionIDList do not count.
C7_LinkedIffTraceableElementHeld ==
    (AccessDecided /\ ModeIs("linked") /\ ~IsOwner /\ ~IsEntitled) =>
        (accessResult.allow <=> HoldsLinkedElement)

\* C7 witness: the document is linked to events and transactions only, and
\* the index gives the organization the element those lists name
C7_Witness ==
    /\ AccessDecided /\ ModeIs("linked") /\ ~IsOwner /\ ~IsEntitled
    /\ DOMAIN accessInput.document.associations = LinkKeys
    /\ accessInput.index[accessInput.requestingOrgId]["productList"] = ElementIds

----------------------------------------------------------------------------
(* Claims on POST /documents and the document reads *)

Answered(route) == request.route = route /\ response.done

\* an authenticated POST /documents whose properties part is JSON
PostedJson ==
    /\ Answered("POST /documents")
    /\ request.authorization = BearerToken
    /\ request.properties.field = "json"

\* the traceable-element lists a stored row holds with length > 0
StoredTraceable(row) ==
    IF row.associations = JNull THEN {}
    ELSE {key \in TraceableKeys :
            key \in DOMAIN row.associations /\ row.associations[key].items # <<>>}

\* C2: every persisted document has at most one non-empty list among
\* locationGLNList, productList, organizationList and epcList.
C2_AtMostOneTraceableCategory ==
    \A d \in DOMAIN documents : Cardinality(StoredTraceable(documents[d])) <= 1

\* C2 witness: a POST /documents naming a template, with a title, every
\* required property and two non-empty traceable-element lists, was answered
C2_Witness ==
    /\ PostedJson
    /\ response.sent
    /\ "documentTitle" \in DOMAIN request.properties.value
    /\ "documentType" \in DOMAIN request.properties.value
    /\ request.properties.value["documentType"].s \in DocumentTypes
    /\ \A name \in SeqToSet(documentTemplates[request.properties.value["documentType"].s].requiredProperties) :
          name \in DOMAIN request.properties.value
    /\ Cardinality({key \in TraceableKeys :
                       key \in DOMAIN request.properties.value
                       /\ request.properties.value[key].items # <<>>}) = 2

ReadRoutes ==
    {"GET /documents/:docId/content", "GET /documents/:docId/entitlement", "GET /documents"}

\* the documents whose data the response to a read carries
DocumentsReturned ==
    IF ~(request.route \in ReadRoutes /\ response.sent /\ response.status = 200) THEN {}
    ELSE IF request.route = "GET /documents"
         THEN IF "documents" \in DOMAIN response.body
              THEN {row.id : row \in response.body.documents}
              ELSE {}
         ELSE {response.body.docId}

\* the organization of the user authenticate attaches to the request
RequestingOrg == StubUser.organizationId

\* the access decision is allow under some index
AccessAllowed(row, org) ==
    \E held \in [TraceableKeys -> SUBSET ElementIds] :
        canAccess(row, org, IndexHolding(org, held))

\* C3: a read returns a document's data to the requesting organization only
\* if the access decision for that document and organization is allow.
C3_ReadsOnlyWhenAllowed ==
    \A d \in DocumentsReturned \cap DOMAIN documents :
        AccessAllowed(documents[d], RequestingOrg)

\* the properties part of an answered POST /documents is well-shaped and
\* names a template
PostedForTemplate ==
    /\ PostedJson
    /\ PropertiesShapeOk(request.properties.value)
    /\ request.properties.value["documentType"].s \in DocumentTypes

PostedTemplate == documentTemplates[request.properties.value["documentType"].s]

\* the request was not turned away for its properties
PropertyValidationSucceeded ==
    ~(/\ response.sent
      /\ response.status = 400
      /\ response.body.error \in {"ZodError", "Invalid document type",
                                  "Missing required properties"})

\* every required name is a key of the properties with a non-empty value
RequiredAllGiven ==
    \A name \in SeqToSet(PostedTemplate.requiredProperties) :
        /\ name \in DOMAIN request.properties.value
        /\ request.properties.value[name] # JStr("")

\* C8: for a well-shaped property set naming a template, property validation
\* in POST /documents succeeds if and only if every name in the template's
\* requiredProperties is a key of the property set with a non-empty value.
C8_RequiredPropertiesIff ==
    PostedForTemplate => (PropertyValidationSucceeded <=> RequiredAllGiven)

\* the request of the test "should create a new document", authenticated
GenericDocumentRequest ==
    /\ Answered("POST /documents")
    /\ request.authorization = BearerToken
    /\ request.properties = FieldJson([documentType |-> JStr("Generic Document"),
                                       documentTitle |-> JStr("Test Document")])
    /\ request.entitlement = FieldJson([mode |-> JStr("private")])
    /\ request.content = NoFile

\* C9: that request is answered 201 with a body that has an id, and the
\* document is persisted.
C9_GenericDocumentCreated ==
    GenericDocumentRequest =>
        /\ response.sent
        /\ response.status = 201
        /\ response.body.id \in DOMAIN documents

----------------------------------------------------------------------------
(* Claims on documentAssociationsSchema: the payload without traceable lists *)

\* C11: parsing the payload {} fails with the message 'Document can only be
\* linked to one type of traceable element', as it does for two lists.
C11_EmptyPayloadRejected ==
    (assocResult.parsed /\ DOMAIN assocInput = {}) =>
        (~assocResult.success /\ assocResult.message = SingleTraceableMessage)

----------------------------------------------------------------------------
(* Claims on the stages of POST /documents *)

\* an authenticated POST /documents with well-shaped properties is about to
\* be served
ServingPost ==
    /\ Pending("POST /documents")
    /\ request.authorization = BearerToken
    /\ request.properties.field = "json"
    /\ PropertiesShapeOk(request.properties.value)

PostedDocumentType == request.properties.value["documentType"].s

\* C12: a POST /documents whose documentType names no known template is
\* answered 400 'Invalid document type' and leaves the document store
\* unchanged (stated for the exchanges that are answered at all).
C12_UnknownTypeRejected ==
    [][(ServingPost /\ PostedDocumentType \notin DocumentTypes /\ response'.sent) =>
          /\ response'.status = 400
          /\ response'.body = ErrorBody("Invalid document type")
          /\ documents' = documents]_vars

\* the request names a template and lacks one of its required properties
LacksRequiredProperty ==
    /\ PostedDocumentType \in DocumentTypes
    /\ \E name \in SeqToSet(documentTemplates[PostedDocumentType].requiredProperties) :
          \/ name \notin DOMAIN request.properties.value
          \/ request.properties.value[name] = JStr("")

\* two traceable-element lists of the properties part are non-empty
TwoTraceableLists == Cardinality(NonEmptyTraceable(request.properties.value)) >= 2

\* the entitlement part is given and is no valid entitlement
InvalidEntitlementPart ==
    /\ request.entitlement.field = "json"
    /\ ~EntitlementShapeOk(request.entitlement.value)

\* a file is attached whose type the template does not allow
DisallowedFile ==
    /\ request.content.present
    /\ request.content.mimetype \notin documentTemplates[PostedDocumentType].allowedFileTypes

LaterStageFails == TwoTraceableLists \/ InvalidEntitlementPart \/ DisallowedFile

MissingPropertiesReported(resp) ==
    /\ resp.sent
    /\ resp.status = 400
    /\ resp.body.error = "Missing required properties"

PassesStagesBeforeFile ==
    /\ PostedDocumentType \in DocumentTypes
    /\ ~LacksRequiredProperty
    /\ ~TwoTraceableLists
    /\ request.entitlement.field \in {"absent", "json"}
    /\ ~InvalidEntitlementPart

UnsupportedMediaType(resp) == resp.sent /\ resp.status = 415

\* C14: in POST /documents a content file of a type the template does not
\* allow makes the request fail with 415 and nothing is persisted, and a
\* request without a content file is never answered 415.
C14_DisallowedFileIs415 ==
    [][(ServingPost /\ response'.sent) =>
          /\ (PassesStagesBeforeFile /\ DisallowedFile) =>
                (UnsupportedMediaType(response') /\ documents' = documents)
          /\ ~request.content.present => ~UnsupportedMediaType(response')]_vars

----------------------------------------------------------------------------
(* Claims on PUT /documents/:docId/content and PUT /documents/:docId/entitlement *)

\* an authenticated request of the route, naming a stored document, is about
\* to be served
ServingPut(route) ==
    /\ Pending(route)
    /\ request.authorization = BearerToken
    /\ request.docId \in DOMAIN documents

\* the file sent is of a type the template of the stored document does not allow
PutsDisallowedFile ==
    /\ request.content.present
    /\ request.content.mimetype
          \notin documentTemplates[documents[request.docId].type].allowedFileTypes

\* the database failed while the request was served
DatabaseFailed(resp) == ~resp.sent \/ resp.status = 500

\* C15: PUT /documents/:docId/content with a file of a type that is not
\* allowed is rejected with 415 and the stored contentFile is unchanged
\* (stated for the exchanges in which the database does not fail).
C15_PutContentDisallowedIs415 ==
    [][(/\ ServingPut("PUT /documents/:docId/content")
        /\ PutsDisallowedFile
        /\ ~DatabaseFailed(response')) =>
          /\ UnsupportedMediaType(response')
          /\ documents'[request.docId].contentFile = documents[request.docId].contentFile]_vars

\* the documents a step creates
Created == {d \in DOMAIN documents' : d \notin DOMAIN documents}

\* C16: a POST /documents without an entitlement part, valid otherwise,
\* persists a document whose entitlement is exactly {mode: 'private'}, with
\* no entitledOrgIds (stated for the exchanges in which the database does
\* not fail).
C16_DefaultEntitlementPrivate ==
    [][(/\ ServingPost
        /\ PassesStagesBeforeFile
        /\ \lnot DisallowedFile
        /\ request.entitlement = FieldAbsent
        /\ ~DatabaseFailed(response')) =>
          /\ Created # {}
          /\ \A d \in Created : documents'[d].entitlement = [mode |-> JStr("private")]]_vars

----------------------------------------------------------------------------
(* Claims on documentEntitlementSchema *)

\* mode is 'private' or 'linked'
ModeRecognized(raw) ==
    /\ "mode" \in DOMAIN raw
    /\ raw["mode"] \in {JStr("private"), JStr("linked")}

\* entitledOrgIds is absent or a list of strings
EntitledOrgIdsAbsentOrStrings(raw) ==
    "entitledOrgIds" \in DOMAIN raw =>
        /\ raw["entitledOrgIds"].kind = "array"
        /\ \A i \in 1..Len(raw["entitledOrgIds"].items) :
              raw["entitledOrgIds"].items[i].kind = "string"

\* C17: entitlement validation succeeds if and only if mode is 'private' or
\* 'linked' and entitledOrgIds is absent or a list of strings; a present
\* entitledOrgIds is accepted in both modes.
C17_EntitlementValidIff ==
    entitlementResult.parsed =>
        (entitlementResult.success <=>
            (ModeRecognized(entitlementInput) /\ EntitledOrgIdsAbsentOrStrings(entitlementInput)))

\* C17 witness: mode 'private' with a non-empty entitledOrgIds has been
\* parsed and accepted
C17_Witness ==
    /\ entitlementResult.parsed
    /\ entitlementResult.success
    /\ "mode" \in DOMAIN entitlementInput
    /\ entitlementInput["mode"] = JStr("private")
    /\ "entitledOrgIds" \in DOMAIN entitlementInput
    /\ entitlementInput["entitledOrgIds"].items # <<>>

----------------------------------------------------------------------------
(* Claims on PUT /documents/:docId/entitlement and on the version *)

\* C18: PUT /documents/:docId/entitlement with a body whose mode is neither
\* 'private' nor 'linked' is answered 400 with an error, and the stored
\* entitlement of the document is unchanged.
C18_InvalidEntitlementIs400 ==
    [][(/\ ServingPut("PUT /documents/:docId/entitlement")
        /\ ~ModeRecognized(request.body)
        /\ response'.sent) =>
          /\ response'.status = 400
          /\ "error" \in DOMAIN response'.body
          /\ documents'[request.docId].entitlement = documents[request.docId].entitlement]_vars

\* the body of the request is a valid entitlement
ValidEntitlementBody ==
    ModeRecognized(request.body) /\ EntitledOrgIdsAbsentOrStrings(request.body)

\* C19: after an authenticated PUT /documents/:docId/entitlement with a
\* valid entitlement E on an existing document the stored entitlement is E,
\* and a GET /documents/:docId/entitlement returns the stored entitlement,
\* so the next GET returns E (stated for the exchanges in which the
\* database does not fail).
C19_PutThenGetEntitlement ==
    [][/\ (/\ ServingPut("PUT /documents/:docId/entitlement")
           /\ ValidEntitlementBody
           /\ ~DatabaseFailed(response')) =>
             documents'[request.docId].entitlement = request.body
       /\ (/\ ServingPut("GET /documents/:docId/entitlement")
           /\ ~DatabaseFailed(response')) =>
             /\ response'.status = 200
             /\ response'.body.value = documents[request.docId].entitlement]_vars

UpdateRoutes == {"PUT /documents/:docId/content", "PUT /documents/:docId/entitlement"}

\* an update of a stored document is about to be served, and succeeds
UpdateSucceeds ==
    /\ \E route \in UpdateRoutes : ServingPut(route)
    /\ response'.sent
    /\ response'.status = 200

\* C20: a document's version is 1 when it is created, is strictly greater
\* after every successful PUT of its content or entitlement, and never
\* decreases.
C20_VersionMonotonic ==
    [][/\ \A d \in Created : documents'[d].version = 1
       /\ \A d \in (DOMAIN documents) \cap (DOMAIN documents') :
             documents'[d].version >= documents[d].version
       /\ UpdateSucceeds =>
             documents'[request.docId].version > documents[request.docId].version]_vars

----------------------------------------------------------------------------
(* Claims on authenticate *)

\* a request is about to be served by its route
Serving == ~Idle /\ ~response.done

\* the Authorization value has a second part after the space, and it is not
\* empty
HasTokenPart(header) == Len(header) >= 3 /\ header[2] = " " /\ header[3] # " "

Rejected401(resp, message) == resp = Status(401, ErrorBody(message))

C25_InvalidTokenIs401 ==
    [][(Serving /\ request.authorization \in {<<"InvalidTokenFormat">>, InvalidBearerToken}) =>
          (Rejected401(response', "Invalid token") /\ UNCHANGED storeVars)]_vars

----------------------------------------------------------------------------
(* Claims on authorize *)

\* req.user exists and its role is one of the roles
UserHasListedRole ==
    /\ authorizeInput.user # NoUser
    /\ "role" \in DOMAIN authorizeInput.user
    /\ authorizeInput.user["role"] \in authorizeInput.roles

----------------------------------------------------------------------------
(* Claims on GET /documents *)

\* an authenticated GET /documents is about to be served
ServingGetDocuments ==
    /\ Pending("GET /documents")
    /\ HasTokenPart(request.authorization)

LimitExceeded(resp) ==
    resp = Status(400, ErrorBody("The maximum number of documents that can be retrieved is 100"))

\* C27: GET /documents answers 400 exactly to the requests whose docIds[]
\* list is longer than MAX_LIMIT_DOC: a longer list is rejected whatever the
\* store does, a list of at most MAX_LIMIT_DOC ids is not answered 400.
C27_LimitRejectsExactlyLongLists ==
    [][(ServingGetDocuments /\ request.docIds.kind = "array") =>
          IF Len(request.docIds.ids) > MAX_LIMIT_DOC
          THEN LimitExceeded(response')
          ELSE ~(response'.sent /\ response'.status = 400)]_vars

\* the cache holds the body of an error response under the url of the request
ErrorBodyCached ==
    /\ OriginalUrl(request) \in DOMAIN cache
    /\ "error" \in DOMAIN cache[OriginalUrl(request)]

\* C28: after a GET /documents that ended in an error response, a later GET
\* /documents with the same url is answered with the status and body the
\* handler computes from the current store.
C28_ErrorNotReplayed ==
    [][(ServingGetDocuments /\ ErrorBodyCached) =>
          \E dbOk \in BOOLEAN :
              response' = GetDocumentsHandler(documents, cache, request, dbOk).response]_vars

----------------------------------------------------------------------------
(* Claims on the transaction log *)

\* the transaction rows a step writes
Logged == transactions' \ transactions

\* an authenticated POST /documents is about to be served, and is answered
PostAnswered ==
    /\ Pending("POST /documents")
    /\ HasTokenPart(request.authorization)
    /\ response'.sent

\* C22: every POST /documents leaves a transaction record: 'completed' when
\* the document is created (201), 'failed' when creation fails, also when it
\* is rejected with 400 for an invalid document type.
C22_PostAlwaysLogsTransaction ==
    [][PostAnswered =>
          /\ Cardinality(Logged) = 1
          /\ \A t \in Logged :
                t.status = IF response'.status = 201 THEN "completed" ELSE "failed"]_vars

WriteRoutes ==
    {"POST /documents", "PUT /documents/:docId/entitlement",
     "DELETE /documents/:docId/attachments/:attachmentId"}

\* an authenticated request to a write route that logs transactions is about
\* to be served
ServingWrite ==
    /\ \E route \in WriteRoutes : Pending(route)
    /\ HasTokenPart(request.authorization)

\* what GET /transactions answers for the x-correlation-id of the response,
\* once the write is served
PolledOutcome ==
    GetTransactionsHandler(transactions', QueryArray(<<ResponseCorrelationId(request)>>), TRUE)

\* C23: the correlation ID under which a write's transaction is recorded is
\* the x-correlation-id communicated to the client for that request, so that
\* GET /transactions with that ID returns the outcome of that write.
C23_TransactionUnderCommunicatedId ==
    [][(ServingWrite /\ Logged # {}) =>
          /\ \A t \in Logged : t.correlationId = ResponseCorrelationId(request)
          /\ PolledOutcome.status = 200
          /\ Logged \subseteq PolledOutcome.body.transactions]_vars

\* a write operation is carried out and answered: an authenticated request to
\* a write route passes authorize, and its handler responds
WriteAnswered ==
    /\ ServingWrite
    /\ response'.sent
    /\ response'.status # 403

TerminalStatuses == {"completed", "failed"}

\* C21: each write operation has one transaction keyed by its correlationId,
\* created pending when the operation starts and given a terminal status
\* (completed or failed) exactly once when it finishes; a terminal transaction
\* never changes and no second record is written for the correlationId.  Seen
\* over the whole operation: it leaves exactly one new transaction, whose
\* status is terminal and whose correlationId no earlier record has, and the
\* records that were there stay as they were.
C21_OneTerminalTransactionPerWrite ==
    [][WriteAnswered =>
          /\ Cardinality(Logged) = 1
          /\ \A t \in Logged :
                /\ t.status \in TerminalStatuses
                /\ t.correlationId \notin {old.correlationId : old \in transactions}
          /\ transactions \subseteq transactions']_vars

\* C30: every request to a write route that logs transactions (POST
\* /documents, PUT entitlement, DELETE attachment) receives exactly one
\* response, also when a persistence call fails at any step, the transaction
\* write inside the error handler included: a handler of these routes never
\* ends without having sent its response.
C30_WriteAlwaysAnswered ==
    (request.route \in WriteRoutes /\ response.done) => response.sent

\* the documents the step inserts
Persisted == (DOMAIN documents') \ (DOMAIN documents)

StoreFailed(resp) ==
    resp.sent /\ resp.status = 500 /\ resp.body = ErrorBody(StoreFailedMessage)

\* C29: a document is persisted by POST /documents if and only if the request
\* is answered 201 and a 'completed' transaction is recorded; whenever the
\* request ends with the 500 'transaction to store the document failed'
\* response and a 'failed' transaction, the store holds no document from it.
C29_PersistedIffCreated ==
    [][Pending("POST /documents") =>
          /\ Persisted # {} <=>
                /\ response'.sent
                /\ response'.status = 201
                /\ \E t \in Logged : t.status = "completed"
          /\ (StoreFailed(response') /\ \E t \in Logged : t.status = "failed") =>
                documents' = documents]_vars

\* a POST /documents has ended with the 500 response and a failed transaction
C29_Witness ==
    /\ request.route = "POST /documents"
    /\ StoreFailed(response)
    /\ \E t \in transactions : t.status = "failed"

====
